---- MODULE Spec2Model ----
(***************************************************************************)
(* Voice-command orchestration of the chat page: the useVoiceRecognition   *)
(* hook (frontend/src/hooks/useVoiceRecognition.ts), the ChatPage that     *)
(* consumes it (frontend/src/app/chat/page.tsx) and the host's speech      *)
(* recognition object the hook drives.                                     *)
(*                                                                         *)
(* Strings are sequences of code points.  React state is the value seen by *)
(* the next render; a closure created by the first render and kept by the  *)
(* mount effect (deps []) sees the state of that first render for ever.    *)
(***************************************************************************)
EXTENDS Integers, Sequences, FiniteSets, TLC

\* ------------------------------------------------------------------ bounds
MaxSessions == 2
\* longest transcript the classifier is applied to
MaxLen == 3

\* ------------------------------------------------------- program constants
\* recognition.continuous = false: the host ends the session after one
\* final result
continuousSession == TRUE
continuous == FALSE
\* ChatPage passes autoDetect: true to the hook
pageAutoDetect == "true"

\* ------------------------------------------------------------------ strings
\* sample strings: " " and " a" (U+0020, U+0061), the Urdu letter meem
\* (U+0645) and the typed "b" (U+0062)
Blank == <<32>>
LatinText == <<32, 97>>
UrduText == <<1605>>
TypedText == <<98>>

IsWhitespace(c) == c \in {9, 10, 11, 12, 13, 32, 160}

RECURSIVE TrimStart(_)
TrimStart(s) ==
  IF s = <<>> THEN <<>>
  ELSE IF IsWhitespace(Head(s)) THEN TrimStart(Tail(s)) ELSE s

RECURSIVE TrimEnd(_)
TrimEnd(s) ==
  IF s = <<>> THEN <<>>
  ELSE IF IsWhitespace(s[Len(s)]) THEN TrimEnd(SubSeq(s, 1, Len(s) - 1)) ELSE s

\* String.prototype.trim
Trim(s) == TrimEnd(TrimStart(s))

TruthyAlways(s) == TRUE

\* a JS string is truthy iff it is not empty
Truthy(s) == s # <<>>

containsUrduBelowLast(text) ==
  \E i \in 1..Len(text) : text[i] >= 1536 /\ text[i] < 1791

\* /[\u0600-\u06FF]/.test(text)
containsUrdu(text) == \E i \in 1..Len(text) : text[i] >= 1536 /\ text[i] <= 1791

detectLanguage(text) == IF containsUrdu(text) THEN "ur" ELSE "en"

getLanguageCode(lang) == IF lang = "en" THEN "en-US" ELSE "ur-PK"

DetectedLangOnlyIfTrue(autoDetect, text) ==
  IF autoDetect = "true" THEN detectLanguage(text) ELSE "null"

\* config.autoDetect !== false ? detectLanguage(finalTranscript) : null
DetectedLang(autoDetect, text) ==
  IF autoDetect # "false" THEN detectLanguage(text) ELSE "null"

\* ------------------------------------------------------------ error values
SupportedCodes ==
  {"not-allowed", "no-speech", "audio-capture", "network", "aborted", "not-supported"}

NoError == [code |-> "none", lang |-> "none"]

getVoiceErrorMessageNetworkFallback(code, lang) ==
  [code |-> IF code \in SupportedCodes THEN code ELSE "network", lang |-> lang]

\* the localized message: which text (per code, or the generic fallback)
\* and in which display language
getVoiceErrorMessage(code, lang) ==
  [code |-> IF code \in SupportedCodes THEN code ELSE "generic", lang |-> lang]

\* codes the host reports in the model (one outside the closed set)
HostErrorCodes == {"not-allowed", "service-not-allowed"}

\* ------------------------------------------------------------- host events
ResultTexts == {<<>>, Blank, UrduText, LatinText}

Results == [isFinal : BOOLEAN, transcript : ResultTexts]

\* event.results from event.resultIndex on: one result, or a final result
\* together with an interim one
ResultEvents ==
  {<<r>> : r \in Results}
    \cup {<<r1, r2>> : r1 \in {r \in Results : r.isFinal /\ r.transcript = LatinText},
                       r2 \in {r \in Results : ~r.isFinal /\ r.transcript = UrduText}}

HasFinalResult(ev) == \E i \in 1..Len(ev) : ev[i].isFinal

RECURSIVE ConcatTranscriptsAll(_, _)
ConcatTranscriptsAll(ev, fin) ==
  IF ev = <<>> THEN <<>>
  ELSE Head(ev).transcript \o ConcatTranscriptsAll(Tail(ev), fin)

\* the loop of onresult: concatenation of the transcripts of the results
\* whose isFinal is `fin`
RECURSIVE ConcatTranscripts(_, _)
ConcatTranscripts(ev, fin) ==
  IF ev = <<>> THEN <<>>
  ELSE (IF Head(ev).isFinal = fin THEN Head(ev).transcript ELSE <<>>)
         \o ConcatTranscripts(Tail(ev), fin)

\* what the user can type in the text box
TypedTexts == {<<>>, TypedText}

\* timeoutRef.current === null
NoTimer == 0

Sessions == 1..MaxSessions

VARIABLES
  \* useVoiceRecognition
  isSupported, isRecording, isTranscribing, transcript, error, detectedLanguage,
  recognitionRef,   \* TRUE iff recognitionRef.current is a recognition object
  recLang,          \* recognitionRef.current.lang
  hookTimeoutRef,   \* the hook's own timeoutRef.current (never assigned)
  \* what the closures kept by the mount effect (deps []) see
  cfgLanguage, cfgAutoDetect, capInputMessage, capUserId,
  \* ChatPage
  \* (the rendered chat log `messages` is written, never read, by the
  \* handlers and is left out)
  language, inputMessage, isLoading, voiceError, userId,
  timeoutRef,       \* ChatPage's timeoutRef.current: id of the last setTimeout, or NoTimer
  timers,           \* the host's pending timeouts: [id, text, session]
  mounted,
  \* the host's recognition object
  hostPhase, session, sessionLang, handles,
  \* observation
  effects,          \* the calls onTranscriptReady made in the last step, in order
  readyCalls,       \* per session: calls of config.onTranscriptReady
  timerFires,       \* per session: runs of the timer callback
  autoSent,         \* messages the timer callback handed to the chat API
  stopCalled,       \* stopRecording() was called in the open session
  stopRepeated,     \* ... and was called again in the same session
  thrown            \* an exception left startRecording() or stopRecording()

hookVars == <<isSupported, isRecording, isTranscribing, transcript, error,
              detectedLanguage, recognitionRef, recLang, hookTimeoutRef>>
capVars == <<cfgLanguage, cfgAutoDetect, capInputMessage, capUserId>>
pageVars == <<language, inputMessage, isLoading, voiceError, userId,
              timeoutRef, timers, mounted>>
hostVars == <<hostPhase, session, sessionLang, handles>>
obsVars == <<effects, readyCalls, timerFires, autoSent, stopCalled,
             stopRepeated, thrown>>
vars == <<hookVars, capVars, pageVars, hostVars, obsVars>>

\* ------------------------------------------------------------ page effects
\* useEffect(() => { if (voiceRecognition.error) setVoiceError(...) },
\* [voiceRecognition.error]): runs after a render in which error changed
SyncVoiceError(oldError, newError, shown) ==
  IF mounted /\ newError # oldError /\ newError # NoError THEN newError ELSE shown

\* useEffect(..., [config.language]): recognitionRef.current.lang follows
\* the display language
LangEffect(oldLanguage, newLanguage, ref, lang) ==
  IF newLanguage # oldLanguage /\ ref /\ isSupported
  THEN getLanguageCode(newLanguage) ELSE lang

\* the language the mounted onTranscriptReady closure compares with
LanguageSeenByCallback == cfgLanguage
\* the language the mounted onerror closure localizes with
LanguageSeenByOnError == cfgLanguage
\* inputMessage and user as seen by the sendMessage the timer callback calls
InputSeenByTimer == capInputMessage
UserSeenByTimer == capUserId

\* the language startRecording reads: useCallback(..., [isSupported,
\* config.language]) is re-created on every language change
LanguageSeenByStaleStart == cfgLanguage
LanguageSeenByStartRecording == language

\* sendMessage passes its guard
SendPasses(seenInput, seenUser) == Truthy(Trim(seenInput)) /\ seenUser

Init ==
  /\ isSupported \in BOOLEAN
  /\ isRecording = FALSE
  /\ isTranscribing = FALSE
  /\ transcript = <<>>
  /\ error = NoError
  /\ detectedLanguage = "null"
  /\ recognitionRef = isSupported
  /\ recLang = IF isSupported THEN getLanguageCode("en") ELSE "none"
  /\ hookTimeoutRef = FALSE
  /\ language = "en"
  /\ inputMessage = <<>>
  /\ isLoading = FALSE
  /\ voiceError = NoError
  /\ userId = TRUE
  /\ timeoutRef = NoTimer
  /\ timers = {}
  /\ mounted = TRUE
  /\ cfgLanguage = language
  /\ cfgAutoDetect = pageAutoDetect
  /\ capInputMessage = inputMessage
  /\ capUserId \in BOOLEAN
  /\ hostPhase = "inactive"
  /\ session = 0
  /\ sessionLang = "none"
  /\ handles = IF isSupported THEN 1 ELSE 0
  /\ effects = <<>>
  /\ readyCalls = [s \in Sessions |-> 0]
  /\ timerFires = [s \in Sessions |-> 0]
  /\ autoSent = {}
  /\ stopCalled = FALSE
  /\ stopRepeated = FALSE
  /\ thrown = FALSE

\* ------------------------------------------------------------ hook actions
\* recognition.start() of the host: opens a session, or throws
\* InvalidStateError when the object is already started
HostStartNeverThrows == FALSE

HostStartThrows == hostPhase # "inactive"

StartRecordingErrorWrongCode(supported, throws, lang, err) ==
  IF ~supported \/ throws THEN getVoiceErrorMessage("not-allowed", lang) ELSE err

\* the error startRecording leaves: the not-supported message without the
\* capability, the not-allowed message of the catch block when start()
\* throws, otherwise the error as it was
StartRecordingError(supported, throws, lang, err) ==
  IF ~supported THEN getVoiceErrorMessage("not-supported", lang)
  ELSE IF throws THEN getVoiceErrorMessage("not-allowed", lang)
  ELSE err

EscapesUncaught(throws) == throws

\* whether an exception of recognition.start() leaves startRecording:
\* start() is called inside try { } catch (err) { setError(...) }
EscapesStartRecording(throws) == FALSE

StartRecording ==
  /\ mounted
  /\ effects' = <<>>
  /\ thrown' = (thrown \/ EscapesStartRecording(recognitionRef /\ HostStartThrows))
  /\ error' = StartRecordingError(isSupported, recognitionRef /\ HostStartThrows,
                                  LanguageSeenByStartRecording, error)
  /\ IF isSupported /\ recognitionRef
     THEN /\ recLang' = getLanguageCode(LanguageSeenByStartRecording)
          /\ IF HostStartThrows
             THEN UNCHANGED <<hostVars, stopCalled, stopRepeated>>
             ELSE /\ session < MaxSessions
                  /\ hostPhase' = "starting"
                  /\ session' = session + 1
                  /\ sessionLang' = recLang'
                  /\ stopCalled' = FALSE
                  /\ stopRepeated' = FALSE
                  /\ UNCHANGED handles
     ELSE UNCHANGED <<recLang, hostVars, stopCalled, stopRepeated>>
  /\ voiceError' = SyncVoiceError(error, error', voiceError)
  /\ UNCHANGED <<isSupported, isRecording, isTranscribing, transcript,
                 detectedLanguage, recognitionRef, hookTimeoutRef, capVars,
                 language, inputMessage, isLoading, userId,
                 timeoutRef, timers, mounted, readyCalls, timerFires, autoSent>>

HostStopTwiceAborts(phase) ==
  CASE phase = "listening" -> "stopping"
    [] phase = "stopping" -> "ending"
    [] phase = "starting" -> "ending"
    [] OTHER -> phase

\* recognition.stop() of the host: a listening session stops capturing and
\* may still return a final result for the audio captured so far
HostStop(phase) ==
  CASE phase = "listening" -> "stopping"
    [] phase = "starting" -> "ending"
    [] OTHER -> phase

\* if (recognitionRef.current) recognitionRef.current.stop()
StopIfPresent(phase, ref) == IF ref THEN HostStop(phase) ELSE phase

\* the cleanup of the mount effect: stop() and recognitionRef.current = null
\* when there is a recognition object
Cleanup(phase, ref) ==
  [hostPhase |-> StopIfPresent(phase, ref), recognitionRef |-> FALSE]

StopRecording ==
  /\ mounted
  /\ effects' = <<>>
  /\ hostPhase' = StopIfPresent(hostPhase, recognitionRef)
  /\ stopCalled' = (stopCalled \/ (recognitionRef /\ hostPhase # "inactive"))
  /\ stopRepeated' = (stopRepeated \/ stopCalled)
  /\ UNCHANGED <<hookVars, capVars, pageVars, session, sessionLang, handles,
                 readyCalls, timerFires, autoSent, thrown>>

ResetStateKeepsError == [transcript |-> <<>>, error |-> error]

\* the state resetTranscript sets
ResetState == [transcript |-> <<>>, error |-> NoError]

ResetTranscript ==
  /\ mounted
  /\ effects' = <<>>
  /\ transcript' = ResetState.transcript
  /\ error' = ResetState.error
  /\ voiceError' = SyncVoiceError(error, error', voiceError)
  /\ UNCHANGED <<isSupported, isRecording, isTranscribing, detectedLanguage,
                 recognitionRef, recLang, hookTimeoutRef, capVars, language,
                 inputMessage, isLoading, userId, timeoutRef, timers,
                 mounted, hostVars, readyCalls, timerFires, autoSent, stopCalled, stopRepeated, thrown>>

\* ------------------------------------------------------ host event handlers
OnStartStateKeepsError ==
  [isRecording |-> TRUE, isTranscribing |-> TRUE, error |-> error]

\* the state recognition.onstart sets
OnStartState ==
  [isRecording |-> TRUE, isTranscribing |-> TRUE, error |-> NoError]

\* recognition.onstart
HostStarted ==
  /\ hostPhase = "starting"
  /\ hostPhase' = "listening"
  /\ effects' = <<>>
  /\ isRecording' = IF mounted THEN OnStartState.isRecording ELSE isRecording
  /\ isTranscribing' = IF mounted THEN OnStartState.isTranscribing ELSE isTranscribing
  /\ error' = IF mounted THEN OnStartState.error ELSE error
  /\ voiceError' = SyncVoiceError(error, error', voiceError)
  /\ UNCHANGED <<isSupported, transcript, detectedLanguage, recognitionRef,
                 recLang, hookTimeoutRef, capVars, language, inputMessage,
                 isLoading, userId, timeoutRef, timers, mounted, session,
                 sessionLang, handles, readyCalls, timerFires, autoSent, stopCalled, stopRepeated, thrown>>

\* number of setTimeout calls so far (one per onTranscriptReady call);
\* the next timer id is one more
RECURSIVE SumUpTo(_, _)
SumUpTo(f, n) == IF n = 0 THEN 0 ELSE f[n] + SumUpTo(f, n - 1)
ArmCount == SumUpTo(readyCalls, MaxSessions)

ClearTimeoutSkipped(pending, ref) == pending

\* if (timeoutRef.current) clearTimeout(timeoutRef.current)
ClearTimeout(pending, ref) ==
  IF ref # NoTimer THEN {t \in pending : t.id # ref} ELSE pending

\* handleVoiceTranscript: the pending timeouts after clear-then-arm
HandleVoiceTranscript(pending, ref, text) ==
  ClearTimeout(pending, ref)
    \cup {[id |-> ArmCount + 1, text |-> text, session |-> session]}

OnTranscriptReadyEffectsSwitchLast(switch) ==
  <<"setInputMessage", "setInputMessage", "setTimeout">>
    \o (IF switch THEN <<"setLanguage">> ELSE <<>>)

\* the calls ChatPage's onTranscriptReady makes, in program order;
\* handleVoiceTranscript is the tail from the second setInputMessage on
OnTranscriptReadyEffects(switch) ==
  <<"setInputMessage">>
    \o (IF switch THEN <<"setLanguage">> ELSE <<>>)
    \o <<"setInputMessage", "setTimeout">>

HostKeepsListening(phase, ev) == phase

\* the host's session after it delivered the results `ev`
HostAfterResult(phase, ev) ==
  IF HasFinalResult(ev) /\ (phase = "stopping" \/ ~continuous) THEN "ending" ELSE phase

\* recognition.onresult, with config.onTranscriptReady and
\* handleVoiceTranscript when there is final text
HostResult(ev) ==
  /\ \/ hostPhase = "listening"
     \/ hostPhase = "stopping" /\ HasFinalResult(ev)
  /\ hostPhase' = HostAfterResult(hostPhase, ev)
  /\ LET finalTranscript == ConcatTranscripts(ev, TRUE)
         interimTranscript == ConcatTranscripts(ev, FALSE)
         currentTranscript ==
           IF Truthy(finalTranscript) THEN finalTranscript ELSE interimTranscript
         detectedLang == DetectedLang(cfgAutoDetect, finalTranscript)
         switch == detectedLang # "null" /\ detectedLang # LanguageSeenByCallback
     IN /\ transcript' = IF mounted THEN currentTranscript ELSE transcript
        /\ IF Truthy(finalTranscript)
           THEN /\ isTranscribing' = IF mounted THEN FALSE ELSE isTranscribing
                /\ detectedLanguage' = IF mounted THEN detectedLang ELSE detectedLanguage
                /\ readyCalls' = [readyCalls EXCEPT ![session] = @ + 1]
                /\ effects' = OnTranscriptReadyEffects(switch)
                /\ inputMessage' = IF mounted THEN finalTranscript ELSE inputMessage
                /\ language' = IF mounted /\ switch THEN detectedLang ELSE language
                /\ timers' = HandleVoiceTranscript(timers, timeoutRef, finalTranscript)
                /\ timeoutRef' = ArmCount + 1
           ELSE /\ isTranscribing' = IF mounted THEN TRUE ELSE isTranscribing
                /\ effects' = <<>>
                /\ UNCHANGED <<detectedLanguage, readyCalls, inputMessage,
                               language, timeoutRef, timers>>
  /\ recLang' = LangEffect(language, language', recognitionRef, recLang)
  /\ UNCHANGED <<isSupported, isRecording, error, recognitionRef,
                 hookTimeoutRef, capVars, isLoading, voiceError,
                 userId, mounted, session, sessionLang, handles, timerFires,
                 autoSent, stopCalled, stopRepeated, thrown>>

OnErrorStateKeepsTranscribing(code) ==
  [isRecording |-> FALSE, isTranscribing |-> isTranscribing,
   error |-> getVoiceErrorMessage(code, LanguageSeenByOnError)]

OnErrorStateKeepsRecording(code) ==
  [isRecording |-> isRecording, isTranscribing |-> FALSE,
   error |-> getVoiceErrorMessage(code, LanguageSeenByOnError)]

\* the state recognition.onerror sets
OnErrorState(code) ==
  [isRecording |-> FALSE, isTranscribing |-> FALSE,
   error |-> getVoiceErrorMessage(code, LanguageSeenByOnError)]

\* recognition.onerror
HostError(code) ==
  /\ hostPhase \in {"starting", "listening", "stopping"}
  /\ hostPhase' = "ending"
  /\ effects' = <<>>
  /\ isRecording' = IF mounted THEN OnErrorState(code).isRecording ELSE isRecording
  /\ isTranscribing' = IF mounted THEN OnErrorState(code).isTranscribing
                       ELSE isTranscribing
  /\ error' = IF mounted THEN OnErrorState(code).error ELSE error
  /\ voiceError' = SyncVoiceError(error, error', voiceError)
  /\ UNCHANGED <<isSupported, transcript, detectedLanguage, recognitionRef,
                 recLang, hookTimeoutRef, capVars, language, inputMessage,
                 isLoading, userId, timeoutRef, timers, mounted, session,
                 sessionLang, handles, readyCalls, timerFires, autoSent, stopCalled, stopRepeated, thrown>>

OnEndStateClearsError ==
  [isRecording |-> FALSE, isTranscribing |-> FALSE,
   error |-> NoError, detectedLanguage |-> detectedLanguage]

OnEndStateClearsDetected ==
  [isRecording |-> FALSE, isTranscribing |-> FALSE,
   error |-> error, detectedLanguage |-> "null"]

OnEndStateKeepsTranscribing ==
  [isRecording |-> FALSE, isTranscribing |-> isTranscribing,
   error |-> error, detectedLanguage |-> detectedLanguage]

\* the state after recognition.onend: both flags false, error and
\* detectedLanguage as they were
OnEndState ==
  [isRecording |-> FALSE, isTranscribing |-> FALSE,
   error |-> error, detectedLanguage |-> detectedLanguage]

\* recognition.onend
HostEnd ==
  /\ hostPhase \in {"listening", "stopping", "ending"}
  /\ hostPhase' = "inactive"
  /\ stopCalled' = FALSE
  /\ stopRepeated' = FALSE
  /\ effects' = <<>>
  /\ isRecording' = IF mounted THEN OnEndState.isRecording ELSE isRecording
  /\ isTranscribing' = IF mounted THEN OnEndState.isTranscribing ELSE isTranscribing
  /\ error' = IF mounted THEN OnEndState.error ELSE error
  /\ detectedLanguage' = IF mounted THEN OnEndState.detectedLanguage
                         ELSE detectedLanguage
  /\ UNCHANGED <<isSupported, transcript,
                 recognitionRef, recLang, hookTimeoutRef, capVars, pageVars,
                 session, sessionLang, handles, readyCalls, timerFires,
                 autoSent, thrown>>

\* ------------------------------------------------------------- page actions
\* the timer callback of handleVoiceTranscript, 300 ms after it was armed:
\* if (transcript.trim()) sendMessage(), with the sendMessage of the render
\* that created the callback
TimerFire(t) ==
  /\ t \in timers
  /\ effects' = <<>>
  /\ timers' = timers \ {t}
  /\ timerFires' = [timerFires EXCEPT ![t.session] = @ + 1]
  /\ IF Truthy(Trim(t.text)) /\ SendPasses(InputSeenByTimer, UserSeenByTimer)
     THEN /\ autoSent' = autoSent \cup {[text |-> Trim(InputSeenByTimer),
                                         session |-> t.session]}
          /\ inputMessage' = IF mounted THEN <<>> ELSE inputMessage
          /\ isLoading' = IF mounted THEN TRUE ELSE isLoading
     ELSE UNCHANGED <<autoSent, inputMessage, isLoading>>
  /\ UNCHANGED <<hookVars, capVars, language, voiceError, userId, timeoutRef,
                 mounted, hostVars, readyCalls, stopCalled, stopRepeated, thrown>>

TextBoxDisabledWhileRecording == isLoading \/ isRecording

\* <textarea disabled={isLoading}>
TextBoxDisabled == isLoading

\* <button onClick={sendMessage} disabled={isLoading || !inputMessage.trim()}>
SendDisabled == isLoading \/ ~Truthy(Trim(inputMessage))

\* the Send button and the Enter key in the text box: sendMessage of the
\* current render
ManualSend ==
  /\ mounted
  /\ ~(SendDisabled /\ TextBoxDisabled)
  /\ effects' = <<>>
  /\ IF SendPasses(inputMessage, userId)
     THEN /\ inputMessage' = <<>>
          /\ isLoading' = TRUE
     ELSE UNCHANGED <<inputMessage, isLoading>>
  /\ UNCHANGED <<hookVars, capVars, language, voiceError, userId, timeoutRef, timers,
                 mounted, hostVars, readyCalls, timerFires, autoSent, stopCalled, stopRepeated, thrown>>

\* the reply (or the failure) of the chat API: the bot message and the
\* finally block of sendMessage
ResponseArrives ==
  /\ mounted
  /\ isLoading
  /\ effects' = <<>>
  /\ isLoading' = FALSE
  /\ UNCHANGED <<hookVars, capVars, language, inputMessage, voiceError, userId,
                 timeoutRef, timers, mounted, hostVars, readyCalls, timerFires, autoSent, stopCalled, stopRepeated, thrown>>

\* onChange of the textarea (disabled while isLoading)
TypeInput(text) ==
  /\ mounted
  /\ ~TextBoxDisabled
  /\ effects' = <<>>
  /\ inputMessage' = text
  /\ UNCHANGED <<hookVars, capVars, language, isLoading, voiceError,
                 userId, timeoutRef, timers, mounted, hostVars, readyCalls, timerFires,
                 autoSent, stopCalled, stopRepeated, thrown>>

ToggleLanguage ==
  /\ mounted
  /\ effects' = <<>>
  /\ language' = IF language = "en" THEN "ur" ELSE "en"
  /\ recLang' = LangEffect(language, language', recognitionRef, recLang)
  /\ UNCHANGED <<isSupported, isRecording, isTranscribing, transcript, error,
                 detectedLanguage, recognitionRef, hookTimeoutRef, capVars,
                 inputMessage, isLoading, voiceError, userId,
                 timeoutRef, timers, mounted, hostVars, readyCalls, timerFires, autoSent, stopCalled, stopRepeated, thrown>>

DismissedVoiceErrorKept == voiceError

\* onClick={() => setVoiceError(null)}
DismissedVoiceError == NoError

\* the dismiss button of the voice error banner
DismissError ==
  /\ mounted
  /\ voiceError # NoError
  /\ effects' = <<>>
  /\ voiceError' = DismissedVoiceError
  /\ UNCHANGED <<hookVars, capVars, language, inputMessage, isLoading,
                 userId, timeoutRef, timers, mounted, hostVars, readyCalls, timerFires,
                 autoSent, stopCalled, stopRepeated, thrown>>

\* unmount of ChatPage: the cleanups of the hook's two mount effects run;
\* React then discards the component's state (modelled as the initial
\* values: nothing reads it any more and later setState calls are ignored)
Unmount ==
  /\ mounted
  /\ mounted' = FALSE
  /\ effects' = <<>>
  /\ hookTimeoutRef' = FALSE
  /\ hostPhase' = Cleanup(hostPhase, recognitionRef).hostPhase
  /\ recognitionRef' = Cleanup(hostPhase, recognitionRef).recognitionRef
  /\ isRecording' = FALSE
  /\ isTranscribing' = FALSE
  /\ transcript' = <<>>
  /\ error' = NoError
  /\ detectedLanguage' = "null"
  /\ language' = "en"
  /\ inputMessage' = <<>>
  /\ isLoading' = FALSE
  /\ voiceError' = NoError
  /\ UNCHANGED <<isSupported, recLang, capVars, userId, timeoutRef, timers, session,
                 sessionLang, handles, readyCalls, timerFires, autoSent, stopCalled, stopRepeated, thrown>>

Next ==
  \/ StartRecording
  \/ StopRecording
  \/ ResetTranscript
  \/ HostStarted
  \/ \E ev \in ResultEvents : HostResult(ev)
  \/ \E code \in HostErrorCodes : HostError(code)
  \/ HostEnd
  \/ \E t \in timers : TimerFire(t)
  \/ ManualSend
  \/ ResponseArrives
  \/ \E text \in TypedTexts : TypeInput(text)
  \/ ToggleLanguage
  \/ DismissError
  \/ Unmount

Spec == Init /\ [][Next]_vars

\* the host answers every start() it accepted with a start or an error
\* event and ends every session with an end event
LiveSpec == Spec /\ WF_vars(HostStarted) /\ WF_vars(HostEnd)

\* ------------------------------------------- the two pure helper functions
\* code points around the two ends of U+0600..U+06FF, a space and "a"
SampleCodePoints == {32, 97, 1535, 1536, 1791, 1792}

SampleStrings == UNION {[1..n -> SampleCodePoints] : n \in 0..MaxLen}

\* config.autoDetect?: boolean
AutoDetectValues == {"true", "false", "undefined"}

\* SpeechRecognitionErrorCode
AllErrorCodes ==
  SupportedCodes \cup {"service-not-allowed", "bad-grammar", "language-not-supported"}

\* a listening session showing some transcript, of a hook mounted with any
\* autoDetect setting
InitFunctions ==
  /\ isSupported = TRUE
  /\ isRecording = TRUE
  /\ isTranscribing = TRUE
  /\ transcript \in SampleStrings
  /\ error = NoError
  /\ detectedLanguage = "null"
  /\ recognitionRef = TRUE
  /\ recLang = getLanguageCode("en")
  /\ hookTimeoutRef = FALSE
  /\ language = "en"
  /\ inputMessage = <<>>
  /\ isLoading = FALSE
  /\ voiceError = NoError
  /\ userId = TRUE
  /\ timeoutRef = NoTimer
  /\ timers = {}
  /\ mounted = TRUE
  /\ cfgLanguage = language
  /\ cfgAutoDetect \in AutoDetectValues
  /\ capInputMessage = inputMessage
  /\ capUserId = TRUE
  /\ hostPhase = "listening"
  /\ session = 1
  /\ sessionLang = getLanguageCode("en")
  /\ handles = 1
  /\ effects = <<>>
  /\ readyCalls = [s \in Sessions |-> 0]
  /\ timerFires = [s \in Sessions |-> 0]
  /\ autoSent = {}
  /\ stopCalled = FALSE
  /\ stopRepeated = FALSE
  /\ thrown = FALSE

\* onresult's detection for a final transcript: setDetectedLanguage and the
\* detectedLanguage argument of config.onTranscriptReady
Classify ==
  /\ readyCalls[session] = 0
  /\ detectedLanguage' = DetectedLang(cfgAutoDetect, transcript)
  /\ readyCalls' = [readyCalls EXCEPT ![session] = @ + 1]
  /\ UNCHANGED <<isSupported, isRecording, isTranscribing, transcript, error,
                 recognitionRef, recLang, hookTimeoutRef, capVars, pageVars,
                 hostVars, effects, timerFires, autoSent, stopCalled,
                 stopRepeated, thrown>>

\* setError(getVoiceErrorMessage(code, lang))
Localize(code, lang) ==
  /\ error = NoError
  /\ error' = getVoiceErrorMessage(code, lang)
  /\ UNCHANGED <<isSupported, isRecording, isTranscribing, transcript,
                 detectedLanguage, recognitionRef, recLang, hookTimeoutRef,
                 capVars, pageVars, hostVars, obsVars>>

NextFunctions ==
  \/ Classify
  \/ \E code \in AllErrorCodes, lang \in {"en", "ur"} : Localize(code, lang)

FunctionSpec == InitFunctions /\ [][NextFunctions]_vars

TypeOK ==
  /\ isRecording \in BOOLEAN
  /\ isTranscribing \in BOOLEAN
  /\ language \in {"en", "ur"}
  /\ session \in 0..MaxSessions
  /\ hostPhase \in {"inactive", "starting", "listening", "stopping", "ending"}

\* ------------------------------------------------------------------ claims
FinalText(ev) == ConcatTranscripts(ev, TRUE)

\* C1: when the timer armed by a non-blank final result T fires (page still
\* mounted, user signed in), a message with the text of T is handed to the
\* chat API for that session.
C1_HappyPathDispatch ==
  [][\A t \in timers :
       (mounted /\ userId /\ TimerFire(t) /\ Truthy(Trim(t.text)))
         => (\E m \in autoSent' : m.text = Trim(t.text) /\ m.session = t.session)]_vars

\* C2: in every session config.onTranscriptReady is called at most once and
\* the auto-send timer callback runs at most once.
C2_AtMostOneDispatch ==
  \A s \in Sessions : readyCalls[s] <= 1 /\ timerFires[s] <= 1

\* a session whose final result called onTranscriptReady once and whose
\* timer callback ran once
C2_Witness ==
  \E s \in Sessions : readyCalls[s] = 1 /\ timerFires[s] = 1

\* C3: a stopRecording() call made while the auto-dispatch of a final result
\* is pending cancels it: no timeout is pending when stopRecording returns.
C3_StopCancelsPendingDispatch ==
  [][(StopRecording /\ timers # {}) => timers' = {}]_vars

\* C4: isRecording and isTranscribing are never both true.
C4_MutualExclusion == ~(isRecording /\ isTranscribing)

\* C5: startRecording() while a session is open changes neither the host's
\* session nor isRecording, isTranscribing, transcript and error.
C5_StartWhileActiveIsNoOp ==
  [][(StartRecording /\ hostPhase # "inactive")
       => UNCHANGED <<isRecording, isTranscribing, transcript, error,
                      hostPhase, session, handles>>]_vars

\* C6: without the speech capability, no recognition object exists and no
\* session is ever opened, and startRecording() sets the error to the
\* not-supported message in the display language and leaves isRecording
\* and isTranscribing false.
C6_UnsupportedHost ==
  [][(~isSupported /\ StartRecording)
       => /\ error' = getVoiceErrorMessage("not-supported", language)
          /\ handles' = 0 /\ ~recognitionRef'
          /\ hostPhase' = "inactive" /\ session' = 0
          /\ ~isRecording' /\ ~isTranscribing']_vars

\* startRecording() was called on a host without the capability, after
\* the display language was switched to Urdu
C6_Witness ==
  /\ ~isSupported
  /\ error = getVoiceErrorMessage("not-supported", "ur")
  /\ handles = 0 /\ session = 0

\* C7: a host error sets isRecording and isTranscribing to false and error
\* to the message of the reported code; no session opens by itself; and once
\* the failed session has ended, startRecording() opens the next session on
\* the same recognition object without raising an error.
C7_ErrorRecovery ==
  [][/\ \A code \in HostErrorCodes :
          (mounted /\ HostError(code))
            => /\ ~isRecording' /\ ~isTranscribing'
               /\ \E lang \in {"en", "ur"} :
                    error' = getVoiceErrorMessage(code, lang)
     /\ (hostPhase = "inactive" /\ hostPhase' # "inactive") => StartRecording
     /\ (StartRecording /\ isSupported /\ hostPhase = "inactive")
          => /\ hostPhase' = "starting" /\ session' = session + 1
             /\ error' = error /\ handles' = handles]_vars

\* the first session failed with a host error and a second session has been
\* opened (the error of the first one is still displayed)
C7_Witness ==
  /\ session = 2 /\ hostPhase = "starting"
  /\ ~isRecording /\ ~isTranscribing
  /\ error = getVoiceErrorMessage("service-not-allowed", "en")

\* C8: whenever the language detected for a final transcript differs from
\* the current display language, the display language becomes the detected
\* one.
C8_LanguageAutoSwitch ==
  [][\A ev \in ResultEvents :
       (/\ mounted /\ cfgAutoDetect # "false"
        /\ HostResult(ev) /\ Truthy(FinalText(ev))
        /\ detectLanguage(FinalText(ev)) # language)
         => language' = detectLanguage(FinalText(ev))]_vars

\* C9: in onTranscriptReady, setLanguage is called before setTimeout; right
\* after the handler the display language is the detected one and the
\* timeout it armed is still pending.
C9_SwitchBeforeArm ==
  /\ \A i, j \in DOMAIN effects :
       (effects[i] = "setLanguage" /\ effects[j] = "setTimeout") => i < j
  /\ (mounted /\ \E i \in DOMAIN effects : effects[i] = "setLanguage")
       => /\ language = detectedLanguage
          /\ \E t \in timers : t.id = timeoutRef /\ t.text = transcript

\* an Urdu final result just switched the display language and armed the
\* timer
C9_Witness ==
  /\ mounted
  /\ \E i \in DOMAIN effects : effects[i] = "setLanguage"
  /\ language = "ur" /\ timers # {}

C11_StopIsSynchronous ==
  [][StopRecording => (~isRecording' /\ ~isTranscribing')]_vars

\* C12: after ChatPage has unmounted there is no recognition object left,
\* config.onTranscriptReady is not called any more and the timer callback
\* hands nothing to the chat API.
C12_NothingAfterUnmount ==
  /\ [](~mounted => ~recognitionRef)
  /\ [][~mounted => (readyCalls' = readyCalls /\ autoSent' = autoSent)]_vars

\* C13: a second stopRecording() right after the first one, and a second run
\* of the mount effect's cleanup right after the first one, change nothing:
\* stopRecording() only moves the host's session, to a phase that another
\* stop() leaves as it is, and the cleanup leaves a state it maps to itself.
C13_StopAndTeardownIdempotent ==
  [][/\ StopRecording
          => /\ StopIfPresent(hostPhase', recognitionRef') = hostPhase'
             /\ UNCHANGED <<isRecording, isTranscribing, transcript, error,
                            recognitionRef, handles, timers, timeoutRef>>
     /\ Unmount
          => Cleanup(hostPhase', recognitionRef')
               = [hostPhase |-> hostPhase', recognitionRef |-> recognitionRef']]_vars

\* stopRecording() was called twice while the session was listening; the
\* session is stopping as after one call
C13_Witness ==
  /\ mounted /\ stopRepeated /\ hostPhase = "stopping" /\ isRecording

\* C14: from the start of a session until its first result event the
\* transcript is the empty string.
C14_TranscriptClearedOnStart ==
  [][(mounted /\ HostStarted) => transcript' = <<>>]_vars

\* C15: when the host reports that the session started, the error left by
\* an earlier session is null.
C15_ErrorClearedOnStart ==
  [][(mounted /\ HostStarted) => error' = NoError]_vars

\* the second session has started after the first one failed: the hook's
\* error is null again (the page's banner still shows the earlier message)
C15_Witness ==
  /\ mounted /\ session = 2 /\ hostPhase = "listening" /\ isRecording
  /\ error = NoError
  /\ voiceError = getVoiceErrorMessage("service-not-allowed", "en")

\* C16: every session is opened with the tag of the display language that is
\* current when startRecording() is called: en-US for en, ur-PK for ur.
C16_SessionLanguageTag ==
  [][(StartRecording /\ session' # session)
       => sessionLang' = (IF language = "en" THEN "en-US" ELSE "ur-PK")]_vars

\* the second session was opened in Urdu although the page was mounted, and
\* the first session's result was detected, in English
C16_Witness ==
  /\ session = 2 /\ hostPhase = "starting"
  /\ sessionLang = "ur-PK" /\ language = "ur"
  /\ cfgLanguage = "en" /\ detectedLanguage = "en"

\* C17: a change of the display language while a session is open leaves the
\* lang of the recognition object unchanged.
C17_NoMidSessionRetag ==
  [][(mounted /\ hostPhase # "inactive" /\ language' # language)
       => recLang' = recLang]_vars

\* C18: a timeout still pending when startRecording() opens a new session is
\* cancelled.
C18_StartCancelsPendingDispatch ==
  [][(StartRecording /\ session' # session /\ timers # {}) => timers' = {}]_vars

\* C19: at most one timeout of handleVoiceTranscript is pending, and it is
\* the one armed last (a superseded one was cleared and cannot fire).
C19_AtMostOneTimer ==
  /\ Cardinality(timers) <= 1
  /\ \A t \in timers : t.id = timeoutRef

\* the final result of the second session re-armed the timer while the
\* first session's timeout was still pending; that one never ran
C19_Witness ==
  /\ readyCalls[1] = 1 /\ readyCalls[2] = 1
  /\ timerFires[1] = 0 /\ timerFires[2] = 0
  /\ timers # {}

\* C20: a final result overwrites the transcript with the final text and
\* leaves isTranscribing true and isRecording false.
C20_FinalResultTransition ==
  [][\A ev \in ResultEvents :
       (mounted /\ HostResult(ev) /\ Truthy(FinalText(ev)))
         => /\ transcript' = FinalText(ev)
            /\ isTranscribing' /\ ~isRecording']_vars

\* C21: a result event without a final result only overwrites the
\* transcript: onTranscriptReady is not called, no timeout is armed, and
\* isRecording, isTranscribing, error, detectedLanguage, the display
\* language and the chat input are unchanged.
C21_InterimResultFrame ==
  [][\A ev \in ResultEvents :
       (mounted /\ HostResult(ev) /\ ~HasFinalResult(ev))
         => /\ transcript' = ConcatTranscripts(ev, FALSE)
            /\ effects' = <<>>
            /\ UNCHANGED <<readyCalls, timers, timeoutRef, isRecording,
                           isTranscribing, error, detectedLanguage, language,
                           inputMessage, hostPhase>>]_vars

\* an interim Urdu result is displayed: nothing was detected, switched,
\* handed to the page or armed
C21_Witness ==
  /\ mounted /\ hostPhase = "listening" /\ session = 1
  /\ transcript = UrduText /\ readyCalls[1] = 0 /\ timers = {}
  /\ detectedLanguage = "null" /\ language = "en" /\ inputMessage = <<>>

\* C22: the message a host error stores is the localization of the reported
\* code in the display language current at that moment.
C22_ErrorInCurrentLanguage ==
  [][\A code \in HostErrorCodes :
       (mounted /\ HostError(code))
         => error' = getVoiceErrorMessage(code, language)]_vars

\* C23: resetTranscript() sets the transcript to '' and the error to null
\* and changes nothing else: the flags, detectedLanguage, the recognition
\* object and the host's session are as before.
C23_ResetFrame ==
  [][ResetTranscript
       => /\ transcript' = <<>> /\ error' = NoError
          /\ UNCHANGED <<isRecording, isTranscribing, detectedLanguage,
                         recognitionRef, recLang, hostVars, language,
                         inputMessage, voiceError, timers, timeoutRef,
                         readyCalls>>]_vars

\* resetTranscript() was called after the final result of a session that is
\* still open: the transcript is empty, the session and its flags remain
C23_Witness ==
  /\ mounted /\ hostPhase = "ending" /\ isRecording
  /\ readyCalls[session] = 1 /\ inputMessage # <<>>
  /\ transcript = <<>> /\ error = NoError

\* C24: dismissing the voice error clears the error shown to the user and
\* changes nothing else.
C24_DismissFrame ==
  [][DismissError
       => /\ voiceError' = NoError
          /\ UNCHANGED <<hookVars, capVars, language, inputMessage, isLoading,
                         userId, timeoutRef, timers, mounted, hostVars>>]_vars

\* the banner was dismissed while the hook still holds the error and the
\* session that raised it is still open
C24_Witness ==
  /\ mounted /\ voiceError = NoError /\ error # NoError
  /\ hostPhase = "listening" /\ isRecording

\* C25: whatever the voice error and the recording flags are, the text box
\* accepts input exactly when the page is not loading, and a send goes out
\* exactly when the page is not loading and the input is not blank.
C25_TypedPathIndependent ==
  mounted
    => /\ \A text \in TypedTexts : (ENABLED TypeInput(text)) <=> ~isLoading
       /\ (ENABLED (ManualSend /\ isLoading'))
            <=> (~isLoading /\ Truthy(Trim(inputMessage)) /\ userId)

\* text typed into the box while a session is recording and a voice error
\* is displayed
C25_Witness ==
  /\ mounted /\ isRecording /\ isTranscribing /\ voiceError # NoError
  /\ error # NoError /\ ~isLoading /\ inputMessage = TypedText

\* C26: no exception leaves startRecording() or stopRecording(); when the
\* host's start() throws, startRecording() stores an error message instead,
\* and a host error event is stored as an error message too.
C26_FailuresBecomeErrorState ==
  [][/\ (StartRecording \/ StopRecording) => ~thrown'
     /\ (StartRecording /\ isSupported /\ recognitionRef /\ HostStartThrows)
          => error' # NoError
     /\ \A code \in HostErrorCodes :
          (mounted /\ HostError(code)) => error' # NoError]_vars

\* start() threw in a listening session: the error is set, nothing was
\* thrown to the caller and the session goes on
C26_Witness ==
  /\ mounted /\ ~thrown /\ session = 1 /\ hostPhase = "listening"
  /\ error = getVoiceErrorMessage("not-allowed", "en")

\* C27: the classifier answers "ur" exactly for the strings with a code
\* point in U+0600..U+06FF and "en" for all others, the empty string
\* included.
C27_Classifier ==
  (readyCalls[session] = 1 /\ cfgAutoDetect = "true")
    => /\ detectedLanguage \in {"en", "ur"}
       /\ (detectedLanguage = "ur")
            <=> (\E i \in DOMAIN transcript : transcript[i] \in 1536..1791)
       /\ (transcript = <<>>) => (detectedLanguage = "en")

\* "a" followed by U+06FF, the last code point of the range, was classified
\* as Urdu
C27_Witness ==
  /\ readyCalls[session] = 1 /\ cfgAutoDetect = "true"
  /\ transcript = <<97, 1791>> /\ detectedLanguage = "ur"

C29_DetectedLanguageValue ==
  [][Classify
       => detectedLanguage' = (IF cfgAutoDetect = "false" THEN "null"
                               ELSE detectLanguage(transcript))]_vars

\* an Urdu transcript was detected with autoDetect left undefined
C29_Witness ==
  /\ cfgAutoDetect = "undefined" /\ readyCalls[session] = 1
  /\ detectedLanguage = "ur"

\* C30: whenever isRecording is false the transcript is the empty string.
C30_TranscriptEmptyWhenIdle ==
  (mounted /\ ~isRecording) => transcript = <<>>

\* C31: the hook never holds more than one recognition object, none is
\* constructed after mount, and a session is opened only while no session
\* is open.
C31_SingleHandle ==
  [][/\ handles <= 1 /\ handles' = handles
     /\ (session' # session)
          => (hostPhase = "inactive" /\ session' = session + 1)]_vars

\* startRecording() was called again while the second session was
\* listening: the call was refused and there is still one object, one session
C31_Witness ==
  /\ mounted /\ handles = 1 /\ session = 2 /\ hostPhase = "listening"
  /\ error = getVoiceErrorMessage("not-allowed", "en")

\* C32: the end event and stopRecording() leave the error as it is; a set
\* error becomes null only through resetTranscript() or the start of a new
\* session.
C32_ErrorPersists ==
  [][/\ (HostEnd \/ StopRecording) => error' = error
     /\ (mounted' /\ error # NoError /\ error' = NoError)
          => (ResetTranscript \/ HostStarted)]_vars

\* the session failed and has ended; the error is still set
C32_Witness ==
  /\ mounted /\ session = 1 /\ hostPhase = "inactive"
  /\ ~isRecording /\ readyCalls[1] = 0
  /\ error = getVoiceErrorMessage("service-not-allowed", "en")

\* C33: once a new session has started, the banner no longer shows the
\* error of an earlier session.
C33_BannerClearedOnStart ==
  [][(mounted /\ HostStarted) => voiceError' = NoError]_vars

C35_BlankNeverDispatched ==
  [][/\ \A ev \in ResultEvents :
          (HostResult(ev) /\ FinalText(ev) = <<>>)
            => (readyCalls' = readyCalls /\ timers' = timers)
     /\ \A t \in timers :
          (TimerFire(t) /\ Trim(t.text) = <<>>)
            => /\ autoSent' = autoSent
               /\ inputMessage' = inputMessage /\ isLoading' = isLoading]_vars

\* the timer armed by a whitespace-only final result has fired and nothing
\* was sent: the blank text is still in the input box
C35_Witness ==
  /\ mounted /\ readyCalls[1] = 1 /\ timerFires[1] = 1 /\ timers = {}
  /\ transcript = Blank /\ inputMessage = Blank
  /\ autoSent = {} /\ ~isLoading

\* C36: detectedLanguage changes only when a result event with final text
\* is processed; every other operation and host event leaves it as it is.
C36_DetectedLanguageFrame ==
  [][(mounted' /\ detectedLanguage' # detectedLanguage)
       => \E ev \in ResultEvents : HostResult(ev) /\ Truthy(FinalText(ev))]_vars

\* the second session is listening and has had no final result: the
\* language detected in the first session is still reported
C36_Witness ==
  /\ mounted /\ session = 2 /\ hostPhase = "listening"
  /\ readyCalls[2] = 0 /\ detectedLanguage = "ur"

\* C37: every host error event leaves an error message visible in the
\* banner.
C37_EveryErrorShown ==
  [][\A code \in HostErrorCodes :
       (mounted /\ HostError(code)) => voiceError' # NoError]_vars

C38_SessionsTerminate ==
  (hostPhase # "inactive")
    ~> (hostPhase = "inactive" /\ ~isRecording /\ ~isTranscribing)

\* a session that showed an interim result and ended without a final result
\* or an error (by silence or stopRecording()) is over, both flags false
C38_Witness ==
  /\ mounted /\ session = 1 /\ hostPhase = "inactive"
  /\ transcript = LatinText /\ readyCalls[1] = 0
  /\ ~isRecording /\ ~isTranscribing /\ error = NoError

====
